---- MODULE Spec2Model ----
(***************************************************************************)
(* Model of the Claude Code rate-limit monitor: the windowed usage         *)
(* aggregation (usage_calculator.py), the notifier with its per-type       *)
(* cooldown (notifier.py) and the alert level state machine of the tray    *)
(* application (tray_app.py).                                              *)
(*                                                                         *)
(* Time is counted in minutes.  Optional values (Python None) are          *)
(* sequences: None is <<>> and a present value v is <<v>>.  A percentage   *)
(* (a Python float) is the exact fraction num/den; comparisons are made by *)
(* cross multiplication.                                                   *)
(***************************************************************************)
EXTENDS Integers, Sequences, FiniteSets, TLC

(* ------------------------------ bounds -------------------------------- *)

\* The plan's token limit, scaled down (config.py PLANS holds 8.7M..400M).
TokenLimit == 100
\* A warning threshold a user can configure above the critical threshold.
HighWarningThreshold == 97
\* Lines of all fragments of a log store together (SpecAgg).
MaxLines == 2
\* Fragments of a log store (SpecAgg).
MaxFragments == 2
\* The clock stops advancing here.
MaxClock == 20
\* Minutes between two observations of the clock.
TickMinutes == 5
\* The debounce delay (0.5 s in file_watcher.py) in steps of the clock of
\* SpecWatcher.
DebounceSteps == 3
\* Qualifying filesystem events delivered in SpecWatcher.
MaxEvents == 2

(* ------------------------- program constants -------------------------- *)

WindowHours == 5
DefaultWarningThreshold == 90
CriticalThreshold == 95
CooldownMinutes == 15

WindowMinutes == WindowHours * 60

None == << >>
Some(v) == << v >>

EmptyMap == [t \in {} |-> 0]

VARIABLES
    warning_threshold,   \* Config.warning_threshold
    token_limit,         \* Config.token_limit
    root_exists,         \* Path(config.claude_dir).exists()
    files,               \* the *.jsonl fragments under the root, in rglob order
    clock,               \* datetime.now(), minutes
    running,             \* TrayApp._running
    icon,                \* TrayApp.icon is set
    current_stats,       \* TrayApp.current_stats
    last_warning_level,  \* TrayApp._last_warning_level
    toaster,             \* Notifier.toaster is set
    last_notification,   \* Notifier.last_notification
    outcome,             \* how the last step ended: "none", "evaluated", "failed"
    calls,               \* the Notifier calls the last step made
    prev_level,          \* _last_warning_level before the last step
    prev_notification,   \* last_notification before the last step
    cleared,             \* the entries the latest reset_cooldown removed
    sends,               \* the types whose send thread has not run show_toast yet
    published,           \* the last step assigned current_stats
    pc,                  \* the position of every thread
    local,               \* the local variables of every thread
    notifier_lock,       \* the holder of Notifier._lock
    handler_lock,        \* the holder of JSONLEventHandler._lock
    timer,               \* JSONLEventHandler._timer
    timers,              \* the threading.Timer objects created so far
    invoked,             \* the calls of the debounce callback so far
    watching             \* the watchdog observer delivers events

\* The state of the threads that call into the tray application and the
\* Notifier.
thread_vars == << pc, local, notifier_lock >>

\* The state of the JSONLEventHandler.
watcher_vars == << handler_lock, timer, timers, invoked, watching >>

\* The state of the tray application, its calculator and its Notifier.
tray_vars == << warning_threshold, token_limit, root_exists, files, running,
                icon, current_stats, last_warning_level, toaster,
                last_notification, outcome, calls, prev_level,
                prev_notification, cleared, sends, published >>

vars == << warning_threshold, token_limit, root_exists, files, clock, running,
           icon, current_stats, last_warning_level, toaster, last_notification,
           outcome, calls, prev_level, prev_notification, cleared, sends,
           published, thread_vars, watcher_vars >>

(* ------------------------- usage_calculator.py ------------------------ *)

CounterNames == { "input_tokens", "output_tokens",
                  "cache_creation_input_tokens", "cache_read_input_tokens" }

\* One line of a fragment, as far as _parse_jsonl_file looks at it.
\*   form      "undecodable" (bytes that are not UTF-8), "blank",
\*             "invalid_json", "non_object" (JSON, but no object), "object"
\*   message   "absent", "non_dict" (null, a string, ...), "dict"
\*   usage     "absent", "empty", "non_dict", "dict"
\*   timestamp "absent" (missing, null or ""), "non_string", "unparseable",
\*             "naive" (no zone offset), "aware"
\*   ts        the instant of a naive or aware timestamp
\*   counters  the sub-counters the usage object holds
Line(form, message, usage, timestamp, ts, counters) ==
    [ form |-> form, message |-> message, usage |-> usage,
      timestamp |-> timestamp, ts |-> ts, counters |-> counters ]

\* usage.get(name, 0)
Counter(line, name) ==
    IF name \in DOMAIN line.counters THEN line.counters[name] ELSE 0

\* Mutant of the token sum: the cache reads are left out.
MessageTokensWithoutCacheRead(line) ==
    Counter(line, "input_tokens") + Counter(line, "output_tokens")
    + Counter(line, "cache_creation_input_tokens")

\* input_tokens + output_tokens + cache_creation + cache_read
MessageTokens(line) ==
    Counter(line, "input_tokens") + Counter(line, "output_tokens")
    + Counter(line, "cache_creation_input_tokens")
    + Counter(line, "cache_read_input_tokens")

\* Mutant of the window test: a record exactly at the bound is left out.
InWindowStrict(msg_time, window_start) == msg_time > window_start

\* msg_time >= window_start
InWindow(msg_time, window_start) == msg_time >= window_start

\* The body of the loop of _parse_jsonl_file for one line: "skip" (continue),
\* "raise" (an exception that leaves _parse_jsonl_file) or "count".
ParseLine(line, window_start) ==
    IF line.form = "undecodable" THEN [ kind |-> "raise", tokens |-> 0 ]
    ELSE IF line.form = "blank" THEN [ kind |-> "skip", tokens |-> 0 ]
    ELSE IF line.form = "invalid_json" THEN [ kind |-> "skip", tokens |-> 0 ]
    ELSE IF line.form = "non_object" THEN [ kind |-> "raise", tokens |-> 0 ]
    ELSE IF line.message = "non_dict" THEN [ kind |-> "raise", tokens |-> 0 ]
    ELSE IF line.message = "absent" \/ line.usage \in { "absent", "empty" }
         THEN [ kind |-> "skip", tokens |-> 0 ]
    ELSE IF line.timestamp = "absent" THEN [ kind |-> "skip", tokens |-> 0 ]
    ELSE IF line.timestamp = "non_string" THEN [ kind |-> "raise", tokens |-> 0 ]
    ELSE IF line.timestamp = "unparseable" THEN [ kind |-> "skip", tokens |-> 0 ]
    ELSE IF line.timestamp = "naive" THEN [ kind |-> "raise", tokens |-> 0 ]
    ELSE IF InWindow(line.ts, window_start)
         THEN IF line.usage = "non_dict"
              THEN [ kind |-> "raise", tokens |-> 0 ]
              ELSE [ kind |-> "count", tokens |-> MessageTokens(line) ]
    ELSE [ kind |-> "skip", tokens |-> 0 ]

\* Mutant of the minimum: the time met last is kept.
OlderOfLatest(oldest, t) == Some(t)

\* oldest is None or t < oldest: the lesser time is kept.
OlderOf(oldest, t) ==
    IF oldest = None \/ t < oldest[1] THEN Some(t) ELSE oldest

RECURSIVE ParseFrom(_, _, _, _, _)
ParseFrom(lines, i, window_start, total_tokens, oldest_time) ==
    IF i > Len(lines)
    THEN [ raised |-> FALSE, tokens |-> total_tokens, oldest |-> oldest_time ]
    ELSE LET r == ParseLine(lines[i], window_start)
         IN  IF r.kind = "raise"
             THEN [ raised |-> TRUE, tokens |-> 0, oldest |-> None ]
             ELSE IF r.kind = "count"
             THEN ParseFrom(lines, i + 1, window_start,
                            total_tokens + r.tokens,
                            OlderOf(oldest_time, lines[i].ts))
             ELSE ParseFrom(lines, i + 1, window_start, total_tokens, oldest_time)

\* _parse_jsonl_file(file_path, window_start): the tokens and the oldest
\* message time of the fragment, or raised.
ParseJsonlFile(lines, window_start) ==
    ParseFrom(lines, 1, window_start, 0, None)

\* Mutant of the loop of calculate: the exception of a fragment leaves the
\* loop and calculate.
RECURSIVE ScanFromUnguarded(_, _, _, _, _)
ScanFromUnguarded(fs, i, window_start, total_tokens, oldest_message_time) ==
    IF i > Len(fs)
    THEN [ aborted |-> FALSE, tokens |-> total_tokens,
           oldest |-> oldest_message_time ]
    ELSE LET r == ParseJsonlFile(fs[i], window_start)
         IN  IF r.raised
             THEN [ aborted |-> TRUE, tokens |-> total_tokens,
                    oldest |-> oldest_message_time ]
             ELSE ScanFromUnguarded(fs, i + 1, window_start,
                                    total_tokens + r.tokens,
                                    IF r.oldest # None
                                    THEN OlderOf(oldest_message_time, r.oldest[1])
                                    ELSE oldest_message_time)

\* The loop of calculate over the fragments: a fragment whose parse raises is
\* passed over (except Exception: continue).
RECURSIVE ScanFrom(_, _, _, _, _)
ScanFrom(fs, i, window_start, total_tokens, oldest_message_time) ==
    IF i > Len(fs)
    THEN [ aborted |-> FALSE, tokens |-> total_tokens,
           oldest |-> oldest_message_time ]
    ELSE LET r == ParseJsonlFile(fs[i], window_start)
         IN  IF r.raised
             THEN ScanFrom(fs, i + 1, window_start, total_tokens,
                           oldest_message_time)
             ELSE ScanFrom(fs, i + 1, window_start, total_tokens + r.tokens,
                           IF r.oldest # None
                           THEN OlderOf(oldest_message_time, r.oldest[1])
                           ELSE oldest_message_time)

ScanFragments(fs, window_start) == ScanFrom(fs, 1, window_start, 0, None)

\* total_tokens / token_limit * 100 if token_limit > 0 else 0
RawPercentage(total_tokens, limit) ==
    IF limit > 0 THEN [ num |-> total_tokens * 100, den |-> limit ]
    ELSE [ num |-> 0, den |-> 1 ]

\* Mutant of the clamp: the percentage is passed on as computed.
ClampMissing(p) == p

\* min(percentage, 100.0)
ClampPercentage(p) ==
    IF p.num > 100 * p.den THEN [ num |-> 100, den |-> 1 ] ELSE p

\* Mutant of the remaining tokens: the difference without the max.
RemainingTokensUnclamped(total_tokens, limit) == limit - total_tokens

\* max(0, token_limit - total_tokens)
RemainingTokens(total_tokens, limit) ==
    IF limit - total_tokens > 0 THEN limit - total_tokens ELSE 0

\* reset_time - now, not below timedelta(0)
RemainingTime(oldest_message_time, now) ==
    IF oldest_message_time = None THEN None
    ELSE LET remaining == oldest_message_time[1] + WindowMinutes - now
         IN  Some(IF remaining < 0 THEN 0 ELSE remaining)

\* Mutant of the snapshot for a missing root: UsageStats() without the limit.
EmptyStatsWithoutLimit(limit) ==
    [ total_tokens |-> 0, token_limit |-> 0,
      percentage |-> [ num |-> 0, den |-> 1 ],
      window_start |-> None, window_end |-> None, remaining_tokens |-> 0,
      remaining_time |-> None, oldest_message_time |-> None ]

\* UsageStats(token_limit=self.config.token_limit)
EmptyStats(limit) ==
    [ total_tokens |-> 0, token_limit |-> limit,
      percentage |-> [ num |-> 0, den |-> 1 ],
      window_start |-> None, window_end |-> None, remaining_tokens |-> 0,
      remaining_time |-> None, oldest_message_time |-> None ]

\* UsageCalculator.calculate(): the snapshot, or raised.
Calculate(exists, fs, now, limit) ==
    IF ~exists THEN [ raised |-> FALSE, stats |-> EmptyStats(limit) ]
    ELSE LET window_start == now - WindowMinutes
             scan == ScanFragments(fs, window_start)
         IN  [ raised |-> scan.aborted,
               stats |->
                 [ total_tokens |-> scan.tokens,
                   token_limit |-> limit,
                   percentage |->
                       ClampPercentage(RawPercentage(scan.tokens, limit)),
                   window_start |-> Some(window_start),
                   window_end |-> Some(now),
                   remaining_tokens |-> RemainingTokens(scan.tokens, limit),
                   remaining_time |-> RemainingTime(scan.oldest, now),
                   oldest_message_time |-> scan.oldest ] ]

\* percentage >= k
PctGeq(p, k) == p.num >= k * p.den

(* ----------------------------- notifier.py ---------------------------- *)

NotificationTypes == { "usage_warning", "usage_critical", "default" }

\* Mutant of the cooldown check: an entry of any type suppresses.
InCooldownOfAnyType(ln, notification_type, now) ==
    \E t \in DOMAIN ln : now - ln[t] < CooldownMinutes

\* The cooldown check of notify: a same-type entry younger than the cooldown.
InCooldown(ln, notification_type, now) ==
    /\ notification_type \in DOMAIN ln
    /\ now - ln[notification_type] < CooldownMinutes

\* Mutant of the recording: the time is written only once the toast was
\* shown, which notify never learns.
RecordAfterDelivery(ln, notification_type, now) == ln

\* self.last_notification[notification_type] = now
Record(ln, notification_type, now) ==
    [ t \in DOMAIN ln \cup { notification_type } |->
        IF t = notification_type THEN now ELSE ln[t] ]

\* Notifier.notify(..., notification_type, force): the map afterwards and the
\* value returned.
Notify(tst, ln, notification_type, force, now) ==
    IF ~tst THEN [ ln |-> ln, result |-> FALSE ]
    ELSE IF ~force /\ InCooldown(ln, notification_type, now)
    THEN [ ln |-> ln, result |-> FALSE ]
    ELSE [ ln |-> Record(ln, notification_type, now), result |-> TRUE ]

NotifyWarning(tst, ln, now) == Notify(tst, ln, "usage_warning", FALSE, now)

NotifyCritical(tst, ln, now) == Notify(tst, ln, "usage_critical", FALSE, now)

\* Mutant of reset_cooldown: only the warning entry is removed.
ResetCooldownWarningOnly(ln, notification_type) ==
    [ t \in DOMAIN ln \ { "usage_warning" } |-> ln[t] ]

\* Notifier.reset_cooldown(notification_type); None clears every type.
ResetCooldown(ln, notification_type) ==
    IF notification_type # None
    THEN [ t \in DOMAIN ln \ { notification_type[1] } |-> ln[t] ]
    ELSE EmptyMap

NotifyCall(notification_type, force, result) ==
    [ op |-> "notify", type |-> notification_type, force |-> force,
      result |-> result ]

ResetCall(notification_type) ==
    [ op |-> "reset_cooldown",
      type |-> IF notification_type = None THEN "all" ELSE notification_type[1],
      force |-> FALSE, result |-> FALSE ]

\* The send() thread of notify: show_toast, its exception caught.
ShowCall(notification_type, shown) ==
    [ op |-> "show_toast", type |-> notification_type, force |-> FALSE,
      result |-> shown ]

\* The types for which the calls started a send thread: notify returned True.
Started(cs) ==
    { cs[i].type : i \in { j \in DOMAIN cs : cs[j].op = "notify" /\ cs[j].result } }

\* The calls hold a reset_cooldown.
Resets(cs) == \E i \in DOMAIN cs : cs[i].op = "reset_cooldown"

(* ----------------------------- tray_app.py ---------------------------- *)

\* Mutants of the guards of _check_and_notify.
AtCriticalStrict(percentage) ==
    percentage.num > CriticalThreshold * percentage.den

BelowWarningNotAtWarning(level) == level # 1

\* percentage >= 95
AtCritical(percentage) == PctGeq(percentage, CriticalThreshold)

\* percentage >= self.config.warning_threshold
AtWarning(percentage, wt) == PctGeq(percentage, wt)

\* self._last_warning_level < 2
BelowCritical(level) == level < 2

\* self._last_warning_level < 1
BelowWarning(level) == level < 1

\* self._last_warning_level > 0
AboveNormal(level) == level > 0

\* TrayApp._check_and_notify over the snapshot stats: the level, the cooldown
\* map and the Notifier calls made.
CheckAndNotify(stats, level, wt, tst, ln, now) ==
    IF AtCritical(stats.percentage)
    THEN IF BelowCritical(level)
         THEN LET n == NotifyCritical(tst, ln, now)
              IN  [ level |-> 2, ln |-> n.ln,
                    calls |-> << NotifyCall("usage_critical", FALSE, n.result) >> ]
         ELSE [ level |-> level, ln |-> ln, calls |-> << >> ]
    ELSE IF AtWarning(stats.percentage, wt)
    THEN IF BelowWarning(level)
         THEN LET n == NotifyWarning(tst, ln, now)
              IN  [ level |-> 1, ln |-> n.ln,
                    calls |-> << NotifyCall("usage_warning", FALSE, n.result) >> ]
         ELSE [ level |-> level, ln |-> ln, calls |-> << >> ]
    ELSE IF AboveNormal(level)
         THEN [ level |-> 0, ln |-> ResetCooldown(ln, None),
                calls |-> << ResetCall(None) >> ]
         ELSE [ level |-> level, ln |-> ln, calls |-> << >> ]

\* TrayApp._refresh_stats: calculate, _update_icon, _check_and_notify, inside
\* one try.  icon_ok: whether rendering and assigning the icon succeeds.
Pass(icon_ok) ==
    LET r == Calculate(root_exists, files, clock, token_limit)
    IN  /\ prev_level' = last_warning_level
        /\ prev_notification' = last_notification
        /\ IF r.raised
           THEN /\ outcome' = "failed"
                /\ calls' = << >>
                /\ published' = FALSE
                /\ UNCHANGED << current_stats, last_warning_level,
                                last_notification, cleared, sends >>
           ELSE /\ current_stats' = Some(r.stats)
                /\ published' = TRUE
                /\ IF icon /\ ~icon_ok
                   THEN /\ outcome' = "failed"
                        /\ calls' = << >>
                        /\ UNCHANGED << last_warning_level, last_notification,
                                        cleared, sends >>
                   ELSE LET c == CheckAndNotify(r.stats, last_warning_level,
                                                warning_threshold, toaster,
                                                last_notification, clock)
                        IN  /\ outcome' = "evaluated"
                            /\ calls' = c.calls
                            /\ last_warning_level' = c.level
                            /\ last_notification' = c.ln
                            /\ cleared' = IF Resets(c.calls)
                                          THEN last_notification ELSE cleared
                            /\ sends' = sends \cup Started(c.calls)

\* TrayApp.run: the initial refresh, then the icon is created.
Run ==
    /\ ~running
    /\ Pass(TRUE)
    /\ running' = TRUE
    /\ icon' = TRUE
    /\ UNCHANGED << warning_threshold, token_limit, root_exists, files, clock,
                    toaster, thread_vars, watcher_vars >>

\* _refresh_loop, _on_refresh and _on_file_changed all call _refresh_stats.
RefreshStats ==
    /\ running
    /\ \E icon_ok \in BOOLEAN : Pass(icon_ok)
    /\ UNCHANGED << warning_threshold, token_limit, root_exists, files, clock,
                    running, icon, toaster, thread_vars, watcher_vars >>

(* ----------------------------- environment ---------------------------- *)

\* A line holding a well-formed usage record.
UsageLine(ts, counters) == Line("object", "dict", "dict", "aware", ts, counters)

NoStep ==
    /\ outcome' = "none"
    /\ calls' = << >>
    /\ prev_level' = last_warning_level
    /\ prev_notification' = last_notification
    /\ published' = FALSE
    /\ UNCHANGED << cleared, sends, thread_vars, watcher_vars >>

\* Total usage the log store is rewritten to in Spec.
AlertTotals == { 80, 90, 95, 99 }

\* The log store changes: one fragment with one record written now.
WriteLogs ==
    /\ \E t \in AlertTotals :
         files' = << << UsageLine(clock, [ c \in { "input_tokens" } |-> t ]) >> >>
    /\ root_exists' = TRUE
    /\ NoStep
    /\ UNCHANGED << warning_threshold, token_limit, clock, running, icon,
                    current_stats, last_warning_level, toaster,
                    last_notification >>

\* The body of a send thread runs: show_toast succeeds or raises, and the
\* exception is caught and logged.
Send ==
    /\ \E notification_type \in sends, shown \in BOOLEAN :
         /\ sends' = sends \ { notification_type }
         /\ calls' = << ShowCall(notification_type, shown) >>
    /\ outcome' = "none"
    /\ prev_level' = last_warning_level
    /\ prev_notification' = last_notification
    /\ published' = FALSE
    /\ UNCHANGED << warning_threshold, token_limit, root_exists, files, clock,
                    running, icon, current_stats, last_warning_level, toaster,
                    last_notification, cleared, thread_vars, watcher_vars >>

Tick ==
    /\ clock < MaxClock
    /\ clock' = clock + TickMinutes
    /\ NoStep
    /\ UNCHANGED << warning_threshold, token_limit, root_exists, files, running,
                    icon, current_stats, last_warning_level, toaster,
                    last_notification >>

\* No thread of the program is modelled step by step.
NoThreads ==
    /\ pc = EmptyMap
    /\ local = EmptyMap
    /\ notifier_lock = None

\* No JSONLEventHandler exists.
NoWatcher ==
    /\ handler_lock = None
    /\ timer = None
    /\ timers = << >>
    /\ invoked = << >>
    /\ watching = FALSE

(* --------------------- Spec: the tray application --------------------- *)

Init ==
    /\ warning_threshold \in { DefaultWarningThreshold, HighWarningThreshold }
    /\ token_limit = TokenLimit
    /\ root_exists = FALSE
    /\ files = << >>
    /\ clock = 0
    /\ running = FALSE
    /\ icon = FALSE
    /\ current_stats = None
    /\ last_warning_level = 0
    /\ toaster \in BOOLEAN
    /\ last_notification = EmptyMap
    /\ outcome = "none"
    /\ calls = << >>
    /\ prev_level = 0
    /\ prev_notification = EmptyMap
    /\ cleared = EmptyMap
    /\ sends = {}
    /\ published = FALSE
    /\ NoThreads
    /\ NoWatcher

Next == Run \/ RefreshStats \/ WriteLogs \/ Tick \/ Send

Spec == Init /\ [][Next]_vars

(* ----------------- SpecAgg: one pass over a log store ----------------- *)

FullUsage ==
    [ c \in CounterNames |->
        CASE c = "input_tokens" -> 10
          [] c = "output_tokens" -> 5
          [] c = "cache_creation_input_tokens" -> 2
          [] c = "cache_read_input_tokens" -> 3 ]

SomeUsage == [ c \in { "input_tokens" } |-> 5 ]

\* The lines a fragment is made of, for a pass at time now: records at the
\* lower bound of the window, just before it and after now, and one line of
\* every kind the parser treats differently.
LineChoices(now) ==
    { UsageLine(now - WindowMinutes, FullUsage),
      UsageLine(now - WindowMinutes - 1, FullUsage),
      UsageLine(now + 1, [ c \in { "output_tokens" } |-> 90 ]),
      Line("blank", "absent", "absent", "absent", 0, EmptyMap),
      Line("invalid_json", "absent", "absent", "absent", 0, EmptyMap),
      Line("object", "dict", "absent", "aware", now, EmptyMap),
      Line("object", "dict", "dict", "absent", 0, SomeUsage),
      Line("object", "dict", "dict", "unparseable", 0, SomeUsage),
      Line("object", "non_dict", "absent", "aware", now, EmptyMap),
      Line("object", "dict", "dict", "non_string", 0, SomeUsage),
      Line("object", "dict", "dict", "naive", now, SomeUsage),
      Line("undecodable", "absent", "absent", "absent", 0, EmptyMap) }

\* The log stores of at most f fragments holding at most n lines together.
RECURSIVE LogStores(_, _, _)
LogStores(f, n, now) ==
    IF f = 0 THEN { << >> }
    ELSE { << >> } \cup
         UNION { LET others == LogStores(f - 1, n - k, now)
                 IN  { << fragment >> \o rest :
                         fragment \in [ 1..k -> LineChoices(now) ],
                         rest \in others } : k \in 0..n }

InitAgg ==
    /\ warning_threshold = DefaultWarningThreshold
    /\ token_limit \in { 0, TokenLimit }
    /\ root_exists \in BOOLEAN
    /\ clock = 0
    /\ files \in IF root_exists THEN LogStores(MaxFragments, MaxLines, clock)
                 ELSE { << >> }
    /\ running = FALSE
    /\ icon = FALSE
    /\ current_stats = None
    /\ last_warning_level = 0
    /\ toaster = TRUE
    /\ last_notification = EmptyMap
    /\ outcome = "none"
    /\ calls = << >>
    /\ prev_level = 0
    /\ prev_notification = EmptyMap
    /\ cleared = EmptyMap
    /\ sends = {}
    /\ published = FALSE
    /\ NoThreads
    /\ NoWatcher

SpecAgg == InitAgg /\ [][Run]_vars

(* ------------------ SpecNotifier: the Notifier alone ------------------ *)

\* notifier.notify(title, message, notification_type, force=force)
CallNotify ==
    /\ \E notification_type \in NotificationTypes, force \in BOOLEAN :
         LET n == Notify(toaster, last_notification, notification_type, force,
                         clock)
         IN  /\ last_notification' = n.ln
             /\ calls' = << NotifyCall(notification_type, force, n.result) >>
             /\ sends' = IF n.result THEN sends \cup { notification_type }
                         ELSE sends
    /\ outcome' = "none"
    /\ prev_notification' = last_notification
    /\ UNCHANGED << warning_threshold, token_limit, root_exists, files, clock,
                    running, icon, current_stats, last_warning_level, toaster,
                    prev_level, cleared, published, thread_vars, watcher_vars >>

\* notifier.reset_cooldown(notification_type)
CallResetCooldown ==
    /\ \E notification_type \in
            { None } \cup { Some(t) : t \in NotificationTypes } :
         /\ last_notification' = ResetCooldown(last_notification, notification_type)
         /\ calls' = << ResetCall(notification_type) >>
    /\ cleared' = [ t \in DOMAIN last_notification \ DOMAIN last_notification'
                      |-> last_notification[t] ]
    /\ outcome' = "none"
    /\ prev_notification' = last_notification
    /\ UNCHANGED << warning_threshold, token_limit, root_exists, files, clock,
                    running, icon, current_stats, last_warning_level, toaster,
                    prev_level, sends, published, thread_vars, watcher_vars >>

InitNotifier ==
    /\ warning_threshold = DefaultWarningThreshold
    /\ token_limit = TokenLimit
    /\ root_exists = FALSE
    /\ files = << >>
    /\ clock = 0
    /\ running = FALSE
    /\ icon = FALSE
    /\ current_stats = None
    /\ last_warning_level = 0
    /\ toaster \in BOOLEAN
    /\ last_notification = EmptyMap
    /\ outcome = "none"
    /\ calls = << >>
    /\ prev_level = 0
    /\ prev_notification = EmptyMap
    /\ cleared = EmptyMap
    /\ sends = {}
    /\ published = FALSE
    /\ NoThreads
    /\ NoWatcher

NextNotifier == CallNotify \/ CallResetCooldown \/ Tick

SpecNotifier == InitNotifier /\ [][NextNotifier]_vars

(* ------------- SpecWatcher: the debounce of file_watcher.py ----------- *)
(* The clock counts steps of which DebounceSteps make the debounce delay.  *)
(* A threading.Timer is "created", then "pending" once started, and ends   *)
(* "cancelled" or "fired"; cancel() has no effect on a timer that fired.   *)

\* The threads that deliver filesystem events to the handler.
EventThreads == { "observer", "emitter" }

\* Mutant of the lock: the critical section is entered whoever holds it.
LockIgnored(lock) == TRUE

\* threading.Lock: free to acquire.
LockFree(lock) == lock = None

\* threading.Timer(self.debounce_seconds, self._execute_callback)
NewTimer == [ state |-> "created", start |-> 0, fired_at |-> 0 ]

\* Mutant of cancel: the previous timer is left running.
CancelMissing(t) == t

\* Timer.cancel(): a timer that has not fired never will.
CancelTimer(t) ==
    IF t.state \in { "created", "pending" }
    THEN [ t EXCEPT !.state = "cancelled" ] ELSE t

\* Timer.start(): the delay runs from now.
StartTimer(t, now) ==
    IF t.state = "created"
    THEN [ t EXCEPT !.state = "pending", !.start = now ] ELSE t

\* The delay of the timer has elapsed.
Elapsed(t, now) == now >= t.start + DebounceSteps

\* Mutant of _execute_callback: no try around the callback.
ExecuteCallbackUnguarded(timer_id, ok) ==
    [ timer |-> timer_id, ok |-> ok, propagated |-> ~ok ]

\* _execute_callback: the callback is called; what it raises is caught and
\* logged.
ExecuteCallback(timer_id, ok) ==
    [ timer |-> timer_id, ok |-> ok, propagated |-> FALSE ]

\* The events delivered so far: one timer each, or still before line 52.
EventsSoFar ==
    Len(timers) + Cardinality({ th \in DOMAIN pc : pc[th] \in { "lock", "cancel", "create" } })

\* on_modified / on_created: an event for a file, not a directory, whose
\* path ends in .jsonl calls _schedule_callback; any other is ignored.
OnEvent(th) ==
    /\ pc[th] = "idle"
    /\ watching
    /\ EventsSoFar < MaxEvents
    /\ \E is_directory \in BOOLEAN, jsonl \in BOOLEAN :
         pc' = [ pc EXCEPT ![th] = IF ~is_directory /\ jsonl
                                   THEN "lock" ELSE "idle" ]
    /\ UNCHANGED << clock, tray_vars, local, notifier_lock, watcher_vars >>

\* with self._lock:
AcquireHandlerLock(th) ==
    /\ pc[th] = "lock"
    /\ LockFree(handler_lock)
    /\ handler_lock' = Some(th)
    /\ pc' = [ pc EXCEPT ![th] = "cancel" ]
    /\ UNCHANGED << clock, tray_vars, local, notifier_lock, timer, timers,
                    invoked, watching >>

\* if self._timer: self._timer.cancel()
CancelPrevious(th) ==
    /\ pc[th] = "cancel"
    /\ timers' = IF timer # None
                 THEN [ timers EXCEPT ![timer[1]] = CancelTimer(timers[timer[1]]) ]
                 ELSE timers
    /\ pc' = [ pc EXCEPT ![th] = "create" ]
    /\ UNCHANGED << clock, tray_vars, local, notifier_lock, handler_lock,
                    timer, invoked, watching >>

\* self._timer = threading.Timer(...)
CreateTimer(th) ==
    /\ pc[th] = "create"
    /\ timers' = Append(timers, NewTimer)
    /\ timer' = Some(Len(timers) + 1)
    /\ pc' = [ pc EXCEPT ![th] = "start" ]
    /\ UNCHANGED << clock, tray_vars, local, notifier_lock, handler_lock,
                    invoked, watching >>

\* self._timer.start(), and the end of the with block.
StartAndRelease(th) ==
    /\ pc[th] = "start"
    /\ timers' = [ timers EXCEPT ![timer[1]] = StartTimer(timers[timer[1]], clock) ]
    /\ handler_lock' = IF handler_lock = Some(th) THEN None ELSE handler_lock
    /\ pc' = [ pc EXCEPT ![th] = "idle" ]
    /\ UNCHANGED << clock, tray_vars, local, notifier_lock, timer, invoked,
                    watching >>

\* The timer thread: the delay has elapsed and the timer was not cancelled,
\* so _execute_callback runs; the callback succeeds or raises.
TimerFire ==
    /\ \E i \in DOMAIN timers, ok \in BOOLEAN :
         /\ timers[i].state = "pending"
         /\ Elapsed(timers[i], clock)
         /\ timers' = [ timers EXCEPT ![i].state = "fired", ![i].fired_at = clock ]
         /\ invoked' = Append(invoked, ExecuteCallback(i, ok))
    /\ UNCHANGED << clock, tray_vars, thread_vars, handler_lock, timer,
                    watching >>

\* Time passes; it is observed only while the delay of a timer is running.
Elapse ==
    /\ \E i \in DOMAIN timers :
         timers[i].state = "pending" /\ ~Elapsed(timers[i], clock)
    /\ clock' = clock + 1
    /\ UNCHANGED << tray_vars, thread_vars, watcher_vars >>

InitWatcher ==
    /\ warning_threshold = DefaultWarningThreshold
    /\ token_limit = TokenLimit
    /\ root_exists = TRUE
    /\ files = << >>
    /\ clock = 0
    /\ running = TRUE
    /\ icon = TRUE
    /\ current_stats = None
    /\ last_warning_level = 0
    /\ toaster = TRUE
    /\ last_notification = EmptyMap
    /\ outcome = "none"
    /\ calls = << >>
    /\ prev_level = 0
    /\ prev_notification = EmptyMap
    /\ cleared = EmptyMap
    /\ sends = {}
    /\ published = FALSE
    /\ pc = [ th \in EventThreads |-> "idle" ]
    /\ local = EmptyMap
    /\ notifier_lock = None
    /\ handler_lock = None
    /\ timer = None
    /\ timers = << >>
    /\ invoked = << >>
    /\ watching = TRUE

HandleEvent ==
    \E th \in EventThreads :
        \/ OnEvent(th)
        \/ AcquireHandlerLock(th)
        \/ CancelPrevious(th)
        \/ CreateTimer(th)
        \/ StartAndRelease(th)

NextWatcher == HandleEvent \/ TimerFire \/ Elapse

\* The timer threads and the clock run on.
SpecWatcher ==
    /\ InitWatcher
    /\ [][NextWatcher]_vars
    /\ WF_vars(TimerFire)
    /\ WF_vars(Elapse)

(* ------ SpecDispatch: the events the observer hands to the handler ---- *)
(* A path is the sequence of its characters.  The observer thread calls     *)
(* dispatch for every event of the watched tree; dispatch calls the method   *)
(* of the event's type, of which JSONLEventHandler overrides on_modified     *)
(* and on_created and inherits the others, which do nothing.                 *)

JsonlSuffix == << ".", "j", "s", "o", "n", "l" >>

\* str.endswith
EndsWith(path, suffix) ==
    /\ Len(path) >= Len(suffix)
    /\ SubSeq(path, Len(path) - Len(suffix) + 1, Len(path)) = suffix

\* The paths of the events: a fragment, a file named .jsonl, and paths with
\* another suffix, one of them holding .jsonl inside and one in capitals.
Paths ==
    { << "a" >> \o JsonlSuffix,
      JsonlSuffix,
      << "a", ".", "j", "s", "o", "n" >>,
      << "a" >> \o JsonlSuffix \o << ".", "b", "a", "k" >>,
      << "a", ".", "J", "S", "O", "N", "L" >>,
      << "j", "s", "o", "n", "l" >> }

EventTypes == { "created", "modified", "deleted", "moved", "closed" }

Events ==
    [ event_type : EventTypes, is_directory : BOOLEAN, src_path : Paths ]

\* The locals of the observer thread before its first event.
NoEvent == [ event_type |-> "none", is_directory |-> FALSE, src_path |-> << >> ]

\* on_modified: whether _schedule_callback is called.
OnModified(event) ==
    ~event.is_directory /\ EndsWith(event.src_path, JsonlSuffix)

\* Mutant of on_created: the suffix of the path is not looked at.
OnCreatedAnyPath(event) == ~event.is_directory

\* on_created: whether _schedule_callback is called.
OnCreated(event) ==
    ~event.is_directory /\ EndsWith(event.src_path, JsonlSuffix)

\* The method dispatch calls for the event: whether _schedule_callback is
\* called.
Schedules(event) ==
    CASE event.event_type = "modified" -> OnModified(event)
      [] event.event_type = "created" -> OnCreated(event)
      [] OTHER -> FALSE

\* The observer thread dispatches an event to the handler.
DispatchEvent(th) ==
    /\ pc[th] = "idle"
    /\ watching
    /\ \E event \in Events :
         /\ Schedules(event) => EventsSoFar < MaxEvents
         /\ local' = [ local EXCEPT ![th] = event ]
         /\ pc' = [ pc EXCEPT ![th] = IF Schedules(event) THEN "lock" ELSE "idle" ]
    /\ UNCHANGED << clock, tray_vars, notifier_lock, watcher_vars >>

\* _schedule_callback on the observer thread.
ScheduleCallback ==
    \/ AcquireHandlerLock("observer")
    \/ CancelPrevious("observer")
    \/ CreateTimer("observer")
    \/ StartAndRelease("observer")

InitDispatch ==
    /\ warning_threshold = DefaultWarningThreshold
    /\ token_limit = TokenLimit
    /\ root_exists = TRUE
    /\ files = << >>
    /\ clock = 0
    /\ running = TRUE
    /\ icon = TRUE
    /\ current_stats = None
    /\ last_warning_level = 0
    /\ toaster = TRUE
    /\ last_notification = EmptyMap
    /\ outcome = "none"
    /\ calls = << >>
    /\ prev_level = 0
    /\ prev_notification = EmptyMap
    /\ cleared = EmptyMap
    /\ sends = {}
    /\ published = FALSE
    /\ pc = [ th \in { "observer" } |-> "idle" ]
    /\ local = [ th \in { "observer" } |-> NoEvent ]
    /\ notifier_lock = None
    /\ handler_lock = None
    /\ timer = None
    /\ timers = << >>
    /\ invoked = << >>
    /\ watching = TRUE

NextDispatch ==
    DispatchEvent("observer") \/ ScheduleCallback \/ TimerFire \/ Elapse

SpecDispatch == InitDispatch /\ [][NextDispatch]_vars

(* --------- SpecLock: threads inside the methods of the Notifier ------- *)

\* The threads that complete aggregation passes and so call the Notifier.
CallerThreads == { "refresh_loop", "debounce_timer" }

\* What no method of the Notifier touches.
caller_vars == << warning_threshold, token_limit, root_exists, files, running,
                 icon, current_stats, last_warning_level, toaster, outcome,
                 prev_level, prev_notification, cleared, published >>

\* The locals of a thread outside every method.
NoCall == [ op |-> "none", type |-> None, force |-> FALSE, now |-> 0,
            seen |-> EmptyMap ]

\* notify is entered: without a toaster it returns False at once.
NotifyEnter(th) ==
    /\ pc[th] = "idle"
    /\ \E notification_type \in { "usage_warning", "usage_critical" },
          force \in BOOLEAN :
         IF ~toaster
         THEN /\ calls' = << NotifyCall(notification_type, force, FALSE) >>
              /\ UNCHANGED << pc, local >>
         ELSE /\ pc' = [ pc EXCEPT ![th] = "notify_lock" ]
              /\ local' = [ local EXCEPT ![th] =
                              [ NoCall EXCEPT !.op = "notify",
                                              !.type = Some(notification_type),
                                              !.force = force ] ]
              /\ UNCHANGED calls
    /\ UNCHANGED << clock, caller_vars, last_notification, sends,
                    notifier_lock, watcher_vars >>

\* with self._lock: (notify)
NotifyAcquire(th) ==
    /\ pc[th] = "notify_lock"
    /\ LockFree(notifier_lock)
    /\ notifier_lock' = Some(th)
    /\ pc' = [ pc EXCEPT ![th] = "check" ]
    /\ UNCHANGED << clock, caller_vars, last_notification, calls, sends, local,
                    watcher_vars >>

\* now = datetime.now() and the cooldown check; a suppressed call returns
\* False, which leaves the with block.
NotifyCheck(th) ==
    /\ pc[th] = "check"
    /\ IF ~local[th].force
          /\ InCooldown(last_notification, local[th].type[1], clock)
       THEN /\ calls' = << NotifyCall(local[th].type[1], FALSE, FALSE) >>
            /\ notifier_lock' = IF notifier_lock = Some(th) THEN None
                                ELSE notifier_lock
            /\ pc' = [ pc EXCEPT ![th] = "idle" ]
            /\ local' = [ local EXCEPT ![th] = NoCall ]
       ELSE /\ pc' = [ pc EXCEPT ![th] = "record" ]
            /\ local' = [ local EXCEPT ![th].now = clock,
                                       ![th].seen = last_notification ]
            /\ UNCHANGED << calls, notifier_lock >>
    /\ UNCHANGED << clock, caller_vars, last_notification, sends, watcher_vars >>

\* self.last_notification[notification_type] = now, the end of the with
\* block, the start of the send thread and return True.
NotifyRecord(th) ==
    /\ pc[th] = "record"
    /\ last_notification' =
           Record(last_notification, local[th].type[1], local[th].now)
    /\ notifier_lock' = IF notifier_lock = Some(th) THEN None ELSE notifier_lock
    /\ sends' = sends \cup { local[th].type[1] }
    /\ calls' = << NotifyCall(local[th].type[1], local[th].force, TRUE) >>
    /\ pc' = [ pc EXCEPT ![th] = "idle" ]
    /\ local' = [ local EXCEPT ![th] = NoCall ]
    /\ UNCHANGED << clock, caller_vars, watcher_vars >>

\* reset_cooldown is entered.
ResetEnter(th) ==
    /\ pc[th] = "idle"
    /\ \E notification_type \in { None, Some("usage_warning") } :
         local' = [ local EXCEPT ![th] =
                      [ NoCall EXCEPT !.op = "reset_cooldown",
                                      !.type = notification_type ] ]
    /\ pc' = [ pc EXCEPT ![th] = "reset_lock" ]
    /\ UNCHANGED << clock, caller_vars, last_notification, calls, sends,
                    notifier_lock, watcher_vars >>

\* with self._lock: (reset_cooldown)
ResetAcquire(th) ==
    /\ pc[th] = "reset_lock"
    /\ LockFree(notifier_lock)
    /\ notifier_lock' = Some(th)
    /\ pc' = [ pc EXCEPT ![th] = "clear" ]
    /\ UNCHANGED << clock, caller_vars, last_notification, calls, sends, local,
                    watcher_vars >>

\* pop(notification_type, None) or clear(), and the end of the with block.
ResetClear(th) ==
    /\ pc[th] = "clear"
    /\ last_notification' = ResetCooldown(last_notification, local[th].type)
    /\ notifier_lock' = IF notifier_lock = Some(th) THEN None ELSE notifier_lock
    /\ calls' = << ResetCall(local[th].type) >>
    /\ pc' = [ pc EXCEPT ![th] = "idle" ]
    /\ local' = [ local EXCEPT ![th] = NoCall ]
    /\ UNCHANGED << clock, caller_vars, sends, watcher_vars >>

InitLock ==
    /\ warning_threshold = DefaultWarningThreshold
    /\ token_limit = TokenLimit
    /\ root_exists = FALSE
    /\ files = << >>
    /\ clock = 0
    /\ running = TRUE
    /\ icon = TRUE
    /\ current_stats = None
    /\ last_warning_level = 0
    /\ toaster \in BOOLEAN
    /\ last_notification = EmptyMap
    /\ outcome = "none"
    /\ calls = << >>
    /\ prev_level = 0
    /\ prev_notification = EmptyMap
    /\ cleared = EmptyMap
    /\ sends = {}
    /\ published = FALSE
    /\ pc = [ th \in CallerThreads |-> "idle" ]
    /\ local = [ th \in CallerThreads |-> NoCall ]
    /\ notifier_lock = None
    /\ NoWatcher

CallerStep ==
    \E th \in CallerThreads :
        \/ NotifyEnter(th)
        \/ NotifyAcquire(th)
        \/ NotifyCheck(th)
        \/ NotifyRecord(th)
        \/ ResetEnter(th)
        \/ ResetAcquire(th)
        \/ ResetClear(th)

NextLock == CallerStep \/ Tick

SpecLock == InitLock /\ [][NextLock]_vars

(* ------- SpecPasses: threads inside _refresh_stats of the tray -------- *)

\* The threads that call _refresh_stats: _refresh_loop, the debounce timer
\* through _on_file_changed, and the menu through _on_refresh.
PassThreads == { "refresh_loop", "debounce_timer", "menu" }

\* What a pass reads and never writes.
config_vars == << warning_threshold, token_limit, root_exists, files, running,
                 icon, toaster >>

\* The locals of a thread outside _refresh_stats.
NoPass == [ stats |-> None, result |-> "none" ]

\* _refresh_stats is entered, once by every thread.
StartPass(th) ==
    /\ pc[th] = "idle"
    /\ pc' = [ pc EXCEPT ![th] = "calculate" ]
    /\ local' = [ local EXCEPT ![th] = NoPass ]
    /\ UNCHANGED << clock, tray_vars, notifier_lock, watcher_vars >>

\* self.calculator.calculate(), the right-hand side of line 146.
PassCalculate(th) ==
    /\ pc[th] = "calculate"
    /\ LET r == Calculate(root_exists, files, clock, token_limit)
       IN  IF r.raised
           THEN /\ pc' = [ pc EXCEPT ![th] = "done" ]
                /\ local' = [ local EXCEPT ![th].result = "failed" ]
           ELSE /\ pc' = [ pc EXCEPT ![th] = "publish" ]
                /\ local' = [ local EXCEPT ![th].stats = Some(r.stats) ]
    /\ UNCHANGED << clock, tray_vars, notifier_lock, watcher_vars >>

\* self.current_stats = ..., the assignment of line 146.
PassPublish(th) ==
    /\ pc[th] = "publish"
    /\ current_stats' = local[th].stats
    /\ published' = TRUE
    /\ pc' = [ pc EXCEPT ![th] = "icon" ]
    /\ UNCHANGED << clock, config_vars, last_warning_level, last_notification,
                    outcome, calls, prev_level, prev_notification, cleared,
                    sends, local, notifier_lock, watcher_vars >>

\* self._update_icon(): what it raises ends the pass in the except clause.
PassUpdateIcon(th) ==
    /\ pc[th] = "icon"
    /\ \E icon_ok \in BOOLEAN :
         IF icon /\ ~icon_ok
         THEN /\ pc' = [ pc EXCEPT ![th] = "done" ]
              /\ local' = [ local EXCEPT ![th].result = "failed" ]
         ELSE /\ pc' = [ pc EXCEPT ![th] = "read" ]
              /\ UNCHANGED local
    /\ UNCHANGED << clock, tray_vars, notifier_lock, watcher_vars >>

\* _check_and_notify, lines 121-125: stats = self.current_stats
PassRead(th) ==
    /\ pc[th] = "read"
    /\ local' = [ local EXCEPT ![th].stats = current_stats ]
    /\ pc' = [ pc EXCEPT ![th] = "act" ]
    /\ UNCHANGED << clock, tray_vars, notifier_lock, watcher_vars >>

\* _check_and_notify, lines 128-141, over the stats read before.
PassAct(th) ==
    /\ pc[th] = "act"
    /\ LET c == CheckAndNotify(local[th].stats[1], last_warning_level,
                               warning_threshold, toaster, last_notification,
                               clock)
       IN  /\ last_warning_level' = c.level
           /\ last_notification' = c.ln
           /\ calls' = c.calls
           /\ sends' = sends \cup Started(c.calls)
           /\ cleared' = IF Resets(c.calls) THEN last_notification ELSE cleared
    /\ outcome' = "evaluated"
    /\ prev_level' = last_warning_level
    /\ prev_notification' = last_notification
    /\ published' = FALSE
    /\ pc' = [ pc EXCEPT ![th] = "done" ]
    /\ local' = [ local EXCEPT ![th].result = "evaluated" ]
    /\ UNCHANGED << clock, config_vars, current_stats, notifier_lock,
                    watcher_vars >>

PassStep(th) ==
    \/ PassCalculate(th)
    \/ PassPublish(th)
    \/ PassUpdateIcon(th)
    \/ PassRead(th)
    \/ PassAct(th)

\* The log store changes while the threads run.
LogsChange ==
    /\ \E t \in AlertTotals :
         files' = << << UsageLine(clock, [ c \in { "input_tokens" } |-> t ]) >> >>
    /\ UNCHANGED << clock, warning_threshold, token_limit, root_exists, running,
                    icon, toaster, current_stats, last_warning_level,
                    last_notification, outcome, calls, prev_level,
                    prev_notification, cleared, sends, published, thread_vars,
                    watcher_vars >>

InitPasses ==
    /\ warning_threshold = DefaultWarningThreshold
    /\ token_limit = TokenLimit
    /\ root_exists = TRUE
    /\ files = << >>
    /\ clock = 0
    /\ running = TRUE
    /\ icon = TRUE
    /\ current_stats = None
    /\ last_warning_level = 0
    /\ toaster = TRUE
    /\ last_notification = EmptyMap
    /\ outcome = "none"
    /\ calls = << >>
    /\ prev_level = 0
    /\ prev_notification = EmptyMap
    /\ cleared = EmptyMap
    /\ sends = {}
    /\ published = FALSE
    /\ pc = [ th \in PassThreads |-> "idle" ]
    /\ local = [ th \in PassThreads |-> NoPass ]
    /\ notifier_lock = None
    /\ NoWatcher

Passes == \E th \in PassThreads : StartPass(th) \/ PassStep(th)

NextPasses == Passes \/ LogsChange

SpecPasses == InitPasses /\ [][NextPasses]_vars

(* ------ SpecEval: threads inside _check_and_notify, line by line ------ *)
(* A pass runs as in SpecPasses up to the read of self.current_stats; the    *)
(* evaluation then takes one step for the tests of lines 128-139, one for a  *)
(* call of the Notifier (made atomic by its lock) and one for every          *)
(* assignment of self._last_warning_level.                                   *)

\* The locals of a thread inside _check_and_notify: the stats read, what
\* notify returned, and the cooldown map as it stood when the thread set the
\* level to Normal.
InEval(stats, result, seen) ==
    [ stats |-> stats, result |-> result, seen |-> seen ]

\* Lines 128, 129, 133, 134, 139: the branch taken for the stats read and
\* the level found.
EvalTest(th) ==
    /\ pc[th] = "act"
    /\ LET percentage == local[th].stats[1].percentage
       IN  pc' = [ pc EXCEPT ![th] =
                     IF AtCritical(percentage)
                     THEN (IF BelowCritical(last_warning_level)
                           THEN "notify_critical" ELSE "done")
                     ELSE IF AtWarning(percentage, warning_threshold)
                     THEN (IF BelowWarning(last_warning_level)
                           THEN "notify_warning" ELSE "done")
                     ELSE (IF AboveNormal(last_warning_level)
                           THEN "drop" ELSE "done") ]
    /\ local' = [ local EXCEPT ![th] = InEval(local[th].stats, "none", EmptyMap) ]
    /\ UNCHANGED << clock, tray_vars, notifier_lock, watcher_vars >>

\* Lines 130 and 135: notify_critical or notify_warning returns.
EvalNotify(th) ==
    /\ pc[th] \in { "notify_critical", "notify_warning" }
    /\ LET notification_type == IF pc[th] = "notify_critical"
                                THEN "usage_critical" ELSE "usage_warning"
           n == Notify(toaster, last_notification, notification_type, FALSE,
                       clock)
       IN  /\ last_notification' = n.ln
           /\ calls' = << NotifyCall(notification_type, FALSE, n.result) >>
           /\ sends' = sends \cup Started(calls')
           /\ local' = [ local EXCEPT ![th].result =
                           IF n.result THEN "delivered" ELSE "suppressed" ]
    /\ pc' = [ pc EXCEPT ![th] = IF pc[th] = "notify_critical"
                                 THEN "set_critical" ELSE "set_warning" ]
    /\ UNCHANGED << clock, config_vars, current_stats, last_warning_level,
                    outcome, prev_level, prev_notification, cleared, published,
                    notifier_lock, watcher_vars >>

\* Lines 131 and 136: self._last_warning_level = 2 or 1
EvalAdvance(th) ==
    /\ pc[th] \in { "set_critical", "set_warning" }
    /\ last_warning_level' = IF pc[th] = "set_critical" THEN 2 ELSE 1
    /\ pc' = [ pc EXCEPT ![th] = "done" ]
    /\ UNCHANGED << clock, config_vars, current_stats, last_notification,
                    outcome, calls, prev_level, prev_notification, cleared,
                    sends, published, local, notifier_lock, watcher_vars >>

\* Line 140: self._last_warning_level = 0
EvalDrop(th) ==
    /\ pc[th] = "drop"
    /\ last_warning_level' = 0
    /\ local' = [ local EXCEPT ![th].seen = last_notification ]
    /\ pc' = [ pc EXCEPT ![th] = "reset" ]
    /\ UNCHANGED << clock, config_vars, current_stats, last_notification,
                    outcome, calls, prev_level, prev_notification, cleared,
                    sends, published, notifier_lock, watcher_vars >>

\* Line 141: self.notifier.reset_cooldown()
EvalReset(th) ==
    /\ pc[th] = "reset"
    /\ last_notification' = ResetCooldown(last_notification, None)
    /\ calls' = << ResetCall(None) >>
    /\ cleared' = last_notification
    /\ pc' = [ pc EXCEPT ![th] = "done" ]
    /\ UNCHANGED << clock, config_vars, current_stats, last_warning_level,
                    outcome, prev_level, prev_notification, sends, published,
                    local, notifier_lock, watcher_vars >>

\* _refresh_stats with _check_and_notify line by line.
EvalStep(th) ==
    \/ StartPass(th)
    \/ PassCalculate(th)
    \/ PassPublish(th)
    \/ PassUpdateIcon(th)
    \/ PassRead(th)
    \/ EvalTest(th)
    \/ EvalNotify(th)
    \/ EvalAdvance(th)
    \/ EvalDrop(th)
    \/ EvalReset(th)

Evals == \E th \in PassThreads : EvalStep(th)

NextEval == Evals \/ LogsChange

SpecEval == InitPasses /\ [][NextEval]_vars

(* ------------- SpecShutdown: TrayApp.stop while running --------------- *)
(* The refresh loop thread, the observer thread with its debounce timers   *)
(* and the thread that calls stop.                                         *)

\* Mutant of the loop condition: the flag is not looked at.
KeepRunningAlways(flag) == TRUE

\* while self._running:
KeepRunning(flag) == flag

\* _refresh_loop: the test of the while loop.
LoopTest ==
    /\ pc["refresh_loop"] = "test"
    /\ IF KeepRunning(running)
       THEN /\ pc' = [ pc EXCEPT !["refresh_loop"] = "calculate" ]
            /\ local' = [ local EXCEPT !["refresh_loop"] = NoPass ]
       ELSE /\ pc' = [ pc EXCEPT !["refresh_loop"] = "exited" ]
            /\ UNCHANGED local
    /\ UNCHANGED << clock, tray_vars, notifier_lock, watcher_vars >>

\* _refresh_loop: time.sleep(self.config.refresh_interval) returns.
LoopSleep ==
    /\ pc["refresh_loop"] = "done"
    /\ pc' = [ pc EXCEPT !["refresh_loop"] = "test" ]
    /\ UNCHANGED << clock, tray_vars, local, notifier_lock, watcher_vars >>

\* The refresh loop thread.
RefreshLoop == LoopTest \/ PassStep("refresh_loop") \/ LoopSleep

\* The observer thread delivering events to the handler.
Observer ==
    \/ OnEvent("observer")
    \/ AcquireHandlerLock("observer")
    \/ CancelPrevious("observer")
    \/ CreateTimer("observer")
    \/ StartAndRelease("observer")

\* TrayApp.stop, line 206: self._running = False
StopFlag ==
    /\ pc["main"] = "running"
    /\ running' = FALSE
    /\ pc' = [ pc EXCEPT !["main"] = "stop_watcher" ]
    /\ UNCHANGED << clock, warning_threshold, token_limit, root_exists, files,
                    icon, current_stats, last_warning_level, toaster,
                    last_notification, outcome, calls, prev_level,
                    prev_notification, cleared, sends, published, local,
                    notifier_lock, watcher_vars >>

\* TrayApp.stop, lines 209-210: FileWatcher.stop stops the observer and
\* joins it, which waits for the event being dispatched.
StopWatcher ==
    /\ pc["main"] = "stop_watcher"
    /\ watching => pc["observer"] = "idle"
    /\ watching' = FALSE
    /\ pc' = [ pc EXCEPT !["main"] = "stop_icon" ]
    /\ UNCHANGED << clock, tray_vars, local, notifier_lock, handler_lock,
                    timer, timers, invoked >>

\* TrayApp.stop, lines 213-214: self.icon.stop()
StopIcon ==
    /\ pc["main"] = "stop_icon"
    /\ pc' = [ pc EXCEPT !["main"] = "stopped" ]
    /\ UNCHANGED << clock, tray_vars, local, notifier_lock, watcher_vars >>

Stop == StopFlag \/ StopWatcher \/ StopIcon

\* The state once run has made the first refresh and started the watcher
\* (idle when the root does not exist) and the refresh thread.
InitShutdown ==
    /\ warning_threshold = DefaultWarningThreshold
    /\ token_limit = TokenLimit
    /\ root_exists \in BOOLEAN
    /\ files = << >>
    /\ clock = 0
    /\ running = TRUE
    /\ icon = TRUE
    /\ current_stats = Some(Calculate(root_exists, files, 0, token_limit).stats)
    /\ last_warning_level = 0
    /\ toaster = TRUE
    /\ last_notification = EmptyMap
    /\ outcome = "none"
    /\ calls = << >>
    /\ prev_level = 0
    /\ prev_notification = EmptyMap
    /\ cleared = EmptyMap
    /\ sends = {}
    /\ published = FALSE
    /\ pc = [ th \in { "refresh_loop", "observer", "main" } |->
                CASE th = "refresh_loop" -> "test"
                  [] th = "observer" -> "idle"
                  [] th = "main" -> "running" ]
    /\ local = [ th \in { "refresh_loop" } |-> NoPass ]
    /\ notifier_lock = None
    /\ handler_lock = None
    /\ timer = None
    /\ timers = << >>
    /\ invoked = << >>
    /\ watching = root_exists

NextShutdown == RefreshLoop \/ Observer \/ TimerFire \/ Elapse \/ Stop

\* Every thread runs on; stop, once begun, is carried through.
SpecShutdown ==
    /\ InitShutdown
    /\ [][NextShutdown]_vars
    /\ WF_vars(RefreshLoop)
    /\ WF_vars(Observer)
    /\ WF_vars(TimerFire)
    /\ WF_vars(Elapse)
    /\ WF_vars(StopWatcher \/ StopIcon)

(* ------------------------- claims under Spec -------------------------- *)

\* The percentage of the published snapshot.
Percentage == current_stats[1].percentage

\* The last step called notify for notification_type.
Emitted(notification_type) ==
    \E i \in DOMAIN calls :
        calls[i].op = "notify" /\ calls[i].type = notification_type

\* The last step's notify for notification_type returned True.
Delivered(notification_type) ==
    \E i \in DOMAIN calls :
        /\ calls[i].op = "notify"
        /\ calls[i].type = notification_type
        /\ calls[i].result

\* The target level of the transition rule, first match wins.
TargetLevel ==
    IF Percentage.num >= 95 * Percentage.den THEN 2
    ELSE IF Percentage.num >= warning_threshold * Percentage.den THEN 1
    ELSE 0

NotifyReturned == Len(calls) = 1 /\ calls[1].op = "notify"

\* An entry of the call's type younger than the cooldown, before the call.
RecentSameType ==
    /\ calls[1].type \in DOMAIN prev_notification
    /\ clock - prev_notification[calls[1].type] < 15

\* The map before the call with the call's type set to now.
RecordedNow ==
    /\ DOMAIN last_notification = DOMAIN prev_notification \cup { calls[1].type }
    /\ last_notification[calls[1].type] = clock
    /\ \A t \in DOMAIN prev_notification \ { calls[1].type } :
           last_notification[t] = prev_notification[t]

\* C3, as claimed: notify returns not-delivered iff it is not forced and an
\* entry of the same type is younger than the cooldown; then the map is
\* unchanged; otherwise (a forced alert always) it returns delivered and the
\* map holds now for the type, the other entries unchanged.
C3_AsClaimed ==
    NotifyReturned =>
        /\ ~calls[1].result <=> (~calls[1].force /\ RecentSameType)
        /\ ~calls[1].result => last_notification = prev_notification
        /\ calls[1].result => RecordedNow

\* C3, amended: with the toast backend available notify behaves as claimed;
\* without it notify returns not-delivered and leaves the map unchanged,
\* forced or not.
C3_CooldownPerType ==
    NotifyReturned =>
        /\ toaster =>
               /\ ~calls[1].result <=> (~calls[1].force /\ RecentSameType)
               /\ ~calls[1].result => last_notification = prev_notification
               /\ calls[1].result => RecordedNow
        /\ ~toaster =>
               (~calls[1].result /\ last_notification = prev_notification)

\* An alert delivered although an entry of another type is younger than the
\* cooldown, its own entry being older.
C3_Witness ==
    /\ NotifyReturned
    /\ calls[1].result
    /\ ~calls[1].force
    /\ calls[1].type \in DOMAIN prev_notification
    /\ clock - prev_notification[calls[1].type] >= CooldownMinutes
    /\ \E t \in DOMAIN prev_notification :
           t # calls[1].type /\ clock - prev_notification[t] < CooldownMinutes

(* ------------------------ claims under SpecAgg ------------------------ *)

\* The published snapshot.
Stats == current_stats[1]

\* The line holds a usage record: an object with a message, a usage object
\* and a timestamp with offset.
WellFormed(line) ==
    /\ line.form = "object"
    /\ line.message = "dict"
    /\ line.usage = "dict"
    /\ line.timestamp = "aware"

\* The positions << fragment, line >> of the store.
Positions ==
    UNION { { << f, i >> : i \in 1..Len(files[f]) } : f \in 1..Len(files) }

LineAt(pos) == files[pos[1]][pos[2]]

\* The records of the fragments in F whose timestamp is not before
\* now - window_hours.
RecordsInWindow(F) ==
    { pos \in Positions :
        /\ pos[1] \in F
        /\ WellFormed(LineAt(pos))
        /\ LineAt(pos).ts >= clock - 5 * 60 }

RECURSIVE SumOfCounters(_, _)
SumOfCounters(counters, names) ==
    IF names = {} THEN 0
    ELSE LET c == CHOOSE c \in names : TRUE
         IN  counters[c] + SumOfCounters(counters, names \ { c })

RECURSIVE SumOfTokens(_)
SumOfTokens(P) ==
    IF P = {} THEN 0
    ELSE LET pos == CHOOSE pos \in P : TRUE
         IN  SumOfCounters(LineAt(pos).counters, DOMAIN LineAt(pos).counters)
             + SumOfTokens(P \ { pos })

OldestOf(P) ==
    IF P = {} THEN None
    ELSE Some(CHOOSE t \in { LineAt(pos).ts : pos \in P } :
                  \A pos \in P : t <= LineAt(pos).ts)

Fragments == 1..Len(files)

\* The parse of the fragment raises.
FragmentFails(f) == ParseJsonlFile(files[f], clock - 5 * 60).raised

\* The pass of this behaviour has scanned the store.
Scanned == outcome # "none" /\ root_exists

\* C5: the percentage of every snapshot is within 0..100: 0 for a limit of
\* 0, 100 for a total above the limit, and total / limit * 100 otherwise.
C5_PercentageWithinBounds ==
    current_stats # None =>
        /\ Stats.percentage.den > 0
        /\ 0 <= Stats.percentage.num
        /\ Stats.percentage.num <= 100 * Stats.percentage.den
        /\ Stats.token_limit = 0 => Stats.percentage.num = 0
        /\ (Stats.token_limit > 0 /\ Stats.total_tokens > Stats.token_limit)
               => Stats.percentage.num = 100 * Stats.percentage.den
        /\ (Stats.token_limit > 0 /\ Stats.total_tokens <= Stats.token_limit)
               => Stats.percentage.num * Stats.token_limit
                     = Stats.total_tokens * 100 * Stats.percentage.den

\* A total above the limit, clamped to 100.
C5_Witness ==
    /\ current_stats # None
    /\ Stats.token_limit > 0
    /\ Stats.total_tokens > Stats.token_limit
    /\ Stats.percentage.num = 100 * Stats.percentage.den

\* C6: the window of a pass at time now starts at now - window_hours; a
\* record is counted iff its timestamp is not before that bound, and no
\* upper bound is applied: the contribution of every fragment that parses is
\* the sum and the oldest time of exactly those records.
C6_WindowMembership ==
    Scanned =>
        /\ Stats.window_start = Some(clock - 5 * 60)
        /\ \A pos \in Positions :
               WellFormed(LineAt(pos)) =>
                   (ParseLine(LineAt(pos), Stats.window_start[1]).kind = "count"
                       <=> LineAt(pos).ts >= clock - 5 * 60)
        /\ \A f \in Fragments :
               LET r == ParseJsonlFile(files[f], Stats.window_start[1])
               IN  ~r.raised =>
                       /\ r.tokens = SumOfTokens(RecordsInWindow({ f }))
                       /\ r.oldest = OldestOf(RecordsInWindow({ f }))

\* A fragment with a record exactly at the bound and one just before it: the
\* first alone is counted.
C6_Witness ==
    /\ Scanned
    /\ Len(files) = 1
    /\ { files[1][i].ts : i \in 1..Len(files[1]) }
           = { clock - WindowMinutes, clock - WindowMinutes - 1 }
    /\ \A i \in 1..Len(files[1]) : WellFormed(files[1][i])
    /\ Stats.total_tokens = 20
    /\ Stats.oldest_message_time = Some(clock - WindowMinutes)

NamedSkippable(line) ==
    \/ line.form = "blank"
    \/ line.form = "invalid_json"
    \/ line.form = "object" /\ (line.message # "dict" \/ line.usage \in { "absent", "empty" })
    \/ line.form = "object" /\ line.timestamp = "absent"

\* C8: in a store whose lines are records or lines that are blank, not JSON,
\* without message.usage or without timestamp, each such line is skipped
\* and the rest of its fragment is still counted: total_tokens and
\* oldest_message_time are those of the records in the window.
C8_MalformedLinesSkipped ==
    (Scanned /\ \A pos \in Positions :
                    WellFormed(LineAt(pos)) \/ NamedSkippable(LineAt(pos))) =>
        /\ Stats.total_tokens = SumOfTokens(RecordsInWindow(Fragments))
        /\ Stats.oldest_message_time = OldestOf(RecordsInWindow(Fragments))

\* C9: when the parse of a fragment fails, the pass still ends without an
\* error and publishes the sum and the oldest time of the records in the
\* window of all the other fragments.
C9_FragmentFailureIsolated ==
    (outcome # "none" /\ root_exists /\ \E f \in Fragments : FragmentFails(f)) =>
        /\ outcome = "evaluated"
        /\ current_stats # None
        /\ Stats.total_tokens =
               SumOfTokens(RecordsInWindow({ f \in Fragments : ~FragmentFails(f) }))
        /\ Stats.oldest_message_time =
               OldestOf(RecordsInWindow({ f \in Fragments : ~FragmentFails(f) }))

\* The first fragment fails and the second one is counted.
C9_Witness ==
    /\ Scanned
    /\ Len(files) = 2
    /\ FragmentFails(1)
    /\ ~FragmentFails(2)
    /\ Stats.total_tokens > 0

\* C10: a pass that finds no log root publishes a snapshot with no tokens,
\* percentage 0, no oldest time, no remaining time and the configured limit.
C10_MissingRootGivesEmptySnapshot ==
    (outcome # "none" /\ ~root_exists) =>
        /\ current_stats # None
        /\ Stats.total_tokens = 0
        /\ Stats.percentage.num = 0
        /\ Stats.oldest_message_time = None
        /\ Stats.remaining_time = None
        /\ Stats.token_limit = token_limit

\* A refresh after the first one, without a log root, evaluated.
C10_Witness ==
    /\ ~root_exists
    /\ icon
    /\ clock > 0
    /\ outcome = "evaluated"
    /\ current_stats # None
    /\ Stats.token_limit = token_limit
    /\ token_limit > 0

\* C16 as stated: every snapshot has
\* remaining_tokens = max(0, token_limit - total_tokens).
C16_AsClaimed ==
    current_stats # None =>
        Stats.remaining_tokens =
            IF Stats.token_limit - Stats.total_tokens > 0
            THEN Stats.token_limit - Stats.total_tokens ELSE 0

\* C16: a snapshot computed over an existing log root has
\* remaining_tokens = max(0, token_limit - total_tokens), never negative; the
\* snapshot returned for a missing root has remaining_tokens = 0 whatever
\* the limit.
C16_RemainingTokens ==
    current_stats # None =>
        /\ Stats.remaining_tokens >= 0
        /\ root_exists =>
               Stats.remaining_tokens =
                   IF Stats.token_limit - Stats.total_tokens > 0
                   THEN Stats.token_limit - Stats.total_tokens ELSE 0
        /\ ~root_exists => Stats.remaining_tokens = 0

\* A total above the limit over an existing root: nothing remains.
C16_Witness ==
    /\ Scanned
    /\ Stats.token_limit > 0
    /\ Stats.total_tokens > Stats.token_limit
    /\ Stats.remaining_tokens = 0

\* The line is a record whose timestamp is no date-time with offset.
BadTimestamp(line) ==
    /\ line.form = "object"
    /\ line.message = "dict"
    /\ line.usage = "dict"
    /\ line.timestamp \in { "unparseable", "naive", "non_string" }

\* C19: in a store whose lines are records or records with a timestamp that
\* is unparseable, without offset or no string, only those lines are
\* skipped: total_tokens is the sum of the records in the window.
C19_BadTimestampSkipsLine ==
    (Scanned /\ \A pos \in Positions :
                    WellFormed(LineAt(pos)) \/ BadTimestamp(LineAt(pos))) =>
        Stats.total_tokens = SumOfTokens(RecordsInWindow(Fragments))

(* ---------------- claims about delivery, under Spec ------------------- *)

\* The level an alert of the type advances to.
LevelOf(notification_type) ==
    IF notification_type = "usage_critical" THEN 2 ELSE 1

\* Before the last step an entry of the type younger than the cooldown stood.
SuppressedByCooldown(notification_type) ==
    /\ notification_type \in DOMAIN prev_notification
    /\ clock - prev_notification[notification_type] < 15

\* The last step ran show_toast in a send thread, with this result.
Showed(shown) ==
    \E i \in DOMAIN calls : calls[i].op = "show_toast" /\ calls[i].result = shown

\* C13 as stated: an emitted alert that the cooldown does not suppress sets
\* the time of its type and advances the level, also when the toast backend
\* is unavailable.
C13_AsClaimed ==
    outcome = "evaluated" =>
        \A t \in { "usage_warning", "usage_critical" } :
            (Emitted(t) /\ ~SuppressedByCooldown(t)) =>
                /\ last_warning_level = LevelOf(t)
                /\ t \in DOMAIN last_notification
                /\ last_notification[t] = clock

\* C13: an emitted alert that the cooldown does not suppress advances the
\* level in every case.  With the toast backend available the time of its
\* type is set in the same step, before show_toast has run, so whatever
\* show_toast does later; with the backend unavailable the cooldown map is
\* left as it was.  A run of show_toast, failing or not, changes neither the
\* level nor the cooldown map.
C13_BookkeepingBeforeDelivery ==
    /\ outcome = "evaluated" =>
           \A t \in { "usage_warning", "usage_critical" } :
               (Emitted(t) /\ ~SuppressedByCooldown(t)) =>
                   /\ last_warning_level = LevelOf(t)
                   /\ toaster =>
                          /\ t \in DOMAIN last_notification
                          /\ last_notification[t] = clock
                          /\ t \in sends
                   /\ ~toaster =>
                          /\ last_notification = prev_notification
                          /\ sends = {}
    /\ (Showed(TRUE) \/ Showed(FALSE)) =>
           /\ last_warning_level = prev_level
           /\ last_notification = prev_notification

\* show_toast of a critical alert has just failed: the level is Critical and
\* the time of the type stands.
C13_Witness ==
    /\ Showed(FALSE)
    /\ calls[1].type = "usage_critical"
    /\ last_warning_level = 2
    /\ "usage_critical" \in DOMAIN last_notification

\* C18: every pass that publishes a snapshot runs the alert evaluation over
\* it, also when updating the tray icon fails.
C18_EvaluatedOncePerPass ==
    published => outcome = "evaluated"

(* ----------------------- claims under SpecWatcher --------------------- *)

\* The timer was started and has neither fired nor been cancelled.
Pending(i) == i \in DOMAIN timers /\ timers[i].state = "pending"

\* The timer has run _execute_callback.
Fired(i) == i \in DOMAIN timers /\ timers[i].state = "fired"

\* The calls of the callback made by timer i.
InvocationsOf(i) == { k \in DOMAIN invoked : invoked[k].timer = i }

\* A later event has cancelled timer i to replace it.
FollowedBy(i) == i \in DOMAIN timers /\ timers[i].state = "cancelled"

\* Timer i + 1 was started less than the debounce delay after timer i.
FollowedWithinDelay(i) ==
    /\ i + 1 \in DOMAIN timers
    /\ timers[i + 1].state # "created"
    /\ timers[i + 1].start - timers[i].start < DebounceSteps

\* An event followed by another within the delay never invokes the callback;
\* a timer that fired did so once, not before its delay had elapsed.
OneInvocationPerBurst ==
    \A i \in DOMAIN timers :
        /\ FollowedWithinDelay(i) =>
               timers[i].state = "cancelled" /\ InvocationsOf(i) = {}
        /\ timers[i].state = "fired" =>
               /\ timers[i].fired_at >= timers[i].start + DebounceSteps
               /\ Cardinality(InvocationsOf(i)) = 1
        /\ timers[i].state # "fired" => InvocationsOf(i) = {}

\* C11: of a burst of events, each handled less than the debounce delay
\* after the one before, only the last invokes the callback, once, and not
\* before the delay has elapsed after it; and it does invoke it: a pending
\* timer that no later event cancels fires.
C11_BurstFiresOnce ==
    /\ []OneInvocationPerBurst
    /\ \A i \in 1..MaxEvents :
           [](Pending(i) => <>(Fired(i) \/ FollowedBy(i)))

\* A burst of two events: the timer of the first was cancelled and the
\* timer of the second has fired, the only invocation.
C11_Witness ==
    /\ Len(timers) = 2
    /\ FollowedWithinDelay(1)
    /\ timers[1].state = "cancelled"
    /\ timers[2].state = "fired"
    /\ Len(invoked) = 1

\* A callback raised before.
CallbackFailed == \E k \in DOMAIN invoked : ~invoked[k].ok

\* C14: what the callback raises does not leave _execute_callback, and the
\* handler goes on: a timer pending after a failure still fires unless a
\* later event replaces it.
C14_CallbackFailureContained ==
    /\ [](\A k \in DOMAIN invoked : ~invoked[k].propagated)
    /\ \A i \in 1..MaxEvents :
           []((CallbackFailed /\ Pending(i)) =>
                  <>(InvocationsOf(i) # {} \/ FollowedBy(i)))

\* The callback raised, and a later event had it invoked again.
C14_Witness ==
    /\ Len(invoked) = 2
    /\ ~invoked[1].ok
    /\ invoked[2].timer > invoked[1].timer
    /\ timers[invoked[2].timer].start >= timers[invoked[1].timer].fired_at

\* C17: at most one timer is pending, and it is the one self._timer holds.
C17_AtMostOnePending ==
    /\ Cardinality({ i \in DOMAIN timers : timers[i].state = "pending" }) <= 1
    /\ \A i \in DOMAIN timers : timers[i].state = "pending" => timer = Some(i)

\* An event has replaced a pending timer: the first is cancelled and the
\* second, which self._timer holds, is pending.
C17_Witness ==
    /\ Len(timers) = 2
    /\ timers[1].state = "cancelled"
    /\ timers[2].state = "pending"
    /\ timer = Some(2)

(* ------------------------- claims under SpecLock ---------------------- *)

\* The thread is inside a with self._lock block of the Notifier.
InSection(th) == pc[th] \in { "check", "record", "clear" }

\* C20: no two threads are inside the locked sections of notify and
\* reset_cooldown at once, the thread inside holds the lock, and between the
\* cooldown check of a notify and its recording no other call has changed
\* the cooldown map.
C20_CooldownMapExclusive ==
    /\ Cardinality({ th \in DOMAIN pc : InSection(th) }) <= 1
    /\ \A th \in DOMAIN pc :
           /\ InSection(th) => notifier_lock = Some(th)
           /\ pc[th] = "record" => last_notification = local[th].seen

\* One thread is between the check and the recording of a notify while the
\* other waits for the lock to clear the map, which holds an entry.
C20_Witness ==
    /\ pc["refresh_loop"] = "record"
    /\ pc["debounce_timer"] = "reset_lock"
    /\ last_notification # EmptyMap

(* ------------------------ claims under SpecPasses --------------------- *)

\* No thread is inside _refresh_stats, and the passes that ran ended with
\* their evaluation.
PassesFinished ==
    /\ \A th \in DOMAIN pc : pc[th] \in { "idle", "done" }
    /\ \E th \in DOMAIN pc : pc[th] = "done"
    /\ \A th \in DOMAIN pc : local[th].result # "failed"

\* C12: once all passes in flight have finished, the alert level is the one
\* an evaluation of the published snapshot ends in: Critical at 95% or
\* more, at least Warning from warning_threshold on, Normal below both.
C12_LevelOfLastSnapshot ==
    PassesFinished =>
        /\ TargetLevel = 2 => last_warning_level = 2
        /\ TargetLevel = 1 => last_warning_level >= 1
        /\ TargetLevel = 0 => last_warning_level = 0

(* ----------------------- claims under SpecShutdown -------------------- *)

\* Nothing is left that starts an aggregation pass: the refresh loop has
\* exited, the observer is stopped and idle, and no timer is waiting.
Quiescent ==
    /\ pc["refresh_loop"] = "exited"
    /\ ~watching
    /\ pc["observer"] = "idle"
    /\ \A i \in DOMAIN timers : timers[i].state \in { "cancelled", "fired" }

\* The published snapshot is one calculate returned, whole.
SnapshotWhole ==
    /\ current_stats # None
    /\ \E t \in 0..clock :
           current_stats[1] = Calculate(root_exists, files, t, token_limit).stats

\* C15: once stop has set the flag, the refresh loop exits after the pass
\* it may be in, the observer stops, and a debounce timer still pending
\* fires at most once more: from some time on nothing starts a pass.  At
\* every time the published snapshot is a whole one.
C15_ShutdownQuiesces ==
    /\ [](pc["main"] # "running" => <>[]Quiescent)
    /\ []SnapshotWhole

\* stop has returned while the refresh loop is about to publish and a
\* debounce timer is pending.
C15_Witness ==
    /\ pc["main"] = "stopped"
    /\ pc["refresh_loop"] = "publish"
    /\ \E i \in DOMAIN timers : timers[i].state = "pending"

(* ----------------------- claims under SpecDispatch -------------------- *)

\* The event is a creation or modification of a file whose path ends in
\* .jsonl.
Qualifying(event) ==
    /\ event.event_type \in { "created", "modified" }
    /\ ~event.is_directory
    /\ Len(event.src_path) >= 6
    /\ SubSeq(event.src_path, Len(event.src_path) - 5, Len(event.src_path))
           = << ".", "j", "s", "o", "n", "l" >>

\* The step cancels a timer, creates or starts one, or replaces self._timer.
ResetsTimer ==
    \/ timer' # timer
    \/ Len(timers') # Len(timers)
    \/ \E i \in DOMAIN timers :
           /\ timers'[i].state # timers[i].state
           /\ timers'[i].state \in { "cancelled", "pending" }

\* The step hands a new event to the handler.
Dispatches == local'["observer"] # local["observer"]

\* C21: a step that resets the debounce timer belongs to the handling of a
\* creation or modification event of a non-directory path ending in .jsonl;
\* the dispatch of such an event enters _schedule_callback, and the dispatch
\* of any other event (deletion, move, directory, other suffix) changes
\* neither the timers nor the handler and lets no time pass.
C21_OnlyJsonlWritesReset ==
    [][ /\ ResetsTimer => (Qualifying(local["observer"]) /\ ~Dispatches)
        /\ (Dispatches /\ Qualifying(local'["observer"]))
               => (pc'["observer"] = "lock" /\ UNCHANGED << watcher_vars, clock >>)
        /\ (Dispatches /\ ~Qualifying(local'["observer"]))
               => UNCHANGED << pc, watcher_vars, clock >> ]_vars

\* A deletion of a fragment was dispatched while a timer is pending with
\* part of its delay gone: the timer still is the pending one.
C21_Witness ==
    /\ local["observer"].event_type = "deleted"
    /\ ~local["observer"].is_directory
    /\ local["observer"].src_path = << "a", ".", "j", "s", "o", "n", "l" >>
    /\ pc["observer"] = "idle"
    /\ Len(timers) = 1
    /\ timers[1].state = "pending"
    /\ clock = timers[1].start + 1
    /\ timer = Some(1)

(* ----------- claims about the enumeration order, under SpecAgg -------- *)

\* The orders in which rglob can yield n fragments.
Orders(n) ==
    { p \in [ 1..n -> 1..n ] : \A i, j \in 1..n : p[i] = p[j] => i = j }

\* The fragments fs enumerated in the order p.
Reordered(fs, p) == [ i \in 1..Len(fs) |-> fs[p[i]] ]

\* C22: the snapshot a pass publishes is the one calculate returns for every
\* order of enumeration of the same fragments, whether or not the parse of
\* one of them fails: total_tokens, oldest_message_time, percentage and
\* remaining_tokens are the same, and no order makes calculate fail.
C22_OrderIndependent ==
    Scanned =>
        \A p \in Orders(Len(files)) :
            LET r == Calculate(root_exists, Reordered(files, p), clock,
                               token_limit)
            IN  /\ ~r.raised
                /\ current_stats # None
                /\ r.stats.total_tokens = Stats.total_tokens
                /\ r.stats.oldest_message_time = Stats.oldest_message_time
                /\ r.stats.percentage = Stats.percentage
                /\ r.stats.remaining_tokens = Stats.remaining_tokens

\* Two fragments holding records of different times and token counts in
\* the window, the one with the older record enumerated last.
C22_Witness ==
    /\ Scanned
    /\ Len(files) = 2
    /\ RecordsInWindow({ 1 }) # {}
    /\ RecordsInWindow({ 2 }) # {}
    /\ files[2][1].ts < files[1][1].ts
    /\ Stats.total_tokens = 20 + 90
    /\ Stats.oldest_message_time = Some(clock - WindowMinutes)

(* ------------------------- claims under SpecEval ---------------------- *)

\* The type of the alert the thread has called notify for.
AlertOf(th) ==
    IF pc[th] = "set_critical" THEN "usage_critical" ELSE "usage_warning"

\* The thread is about to advance the level although the cooldown check
\* suppressed its alert.
AdvancesSuppressed(th) ==
    /\ pc[th] \in { "set_critical", "set_warning" }
    /\ local[th].result = "suppressed"

\* The thread has set the level to Normal and not yet cleared the cooldown
\* map, which still holds the entry of the type it held then.
StaleEntry(th, notification_type) ==
    /\ pc[th] = "reset"
    /\ notification_type \in DOMAIN local[th].seen
    /\ notification_type \in DOMAIN last_notification
    /\ last_notification[notification_type] = local[th].seen[notification_type]

\* C23: no evaluation advances the level after its alert was suppressed by
\* a cooldown entry that was recorded before another evaluation set the
\* level to Normal and that this evaluation has yet to clear.
C23_ResetAtomicNoLostAlert ==
    \A th \in DOMAIN pc, other \in DOMAIN pc :
        AdvancesSuppressed(th) => ~StaleEntry(other, AlertOf(th))

(* --------------- claims about pass boundaries, under Spec ------------- *)

\* C24: between passes that run one at a time the cooldown map is empty
\* when the level is Normal, holds a warning entry only at Warning or
\* Critical and a critical entry only at Critical; and the cooldown check
\* suppresses no alert an evaluation emits.
C24_CooldownFollowsLevel ==
    /\ last_warning_level = 0 => last_notification = EmptyMap
    /\ "usage_warning" \in DOMAIN last_notification => last_warning_level >= 1
    /\ "usage_critical" \in DOMAIN last_notification => last_warning_level = 2
    /\ DOMAIN last_notification \subseteq { "usage_warning", "usage_critical" }
    /\ outcome = "evaluated" =>
           \A i \in DOMAIN calls :
               calls[i].op = "notify" =>
                   ~(/\ calls[i].type \in DOMAIN prev_notification
                     /\ clock - prev_notification[calls[i].type] < 15)

\* A pass at Warning emits the critical alert while the warning entry is
\* younger than the cooldown: it is delivered, and the map holds both.
C24_Witness ==
    /\ outcome = "evaluated"
    /\ prev_level = 1
    /\ last_warning_level = 2
    /\ "usage_warning" \in DOMAIN prev_notification
    /\ clock - prev_notification["usage_warning"] < CooldownMinutes
    /\ Delivered("usage_critical")
    /\ DOMAIN last_notification = { "usage_warning", "usage_critical" }

====
